---- MODULE Spec2Model ----
(***************************************************************************)
(* Model of meta-viz/scripts/relation_stats.py (relation statistics: edge  *)
(* extraction, orientation, degree/duplicate aggregation, cardinality      *)
(* classification, CLI) and of safe_get in meta-viz/scripts/               *)
(* fetch_metadata.py.                                                      *)
(*                                                                         *)
(* Spec      : compute_relation_stats on every raw edge list / universes   *)
(* SpecParse : parse_relation_table on every bounded relation document     *)
(* SpecCli   : main, from the input checks to the written report           *)
(* SpecGet   : safe_get under every sequence of request outcomes           *)
(* SpecIndex : main followed by build_stats_index.py over the stats tree   *)
(***************************************************************************)
EXTENDS Integers, Sequences, FiniteSets, TLC

VARIABLES
    pc,              \* position of the modelled run
    src_uuids,       \* relation_stats.py:97  source node universe
    tgt_uuids,       \* relation_stats.py:98  target node universe
    raw_pairs,       \* relation_stats.py:101 list of (col0, col1)
    oriented_pairs,  \* relation_stats.py:104
    misclassified,   \* relation_stats.py:105
    src_deg,         \* relation_stats.py:120 Counter
    tgt_deg,         \* relation_stats.py:121 Counter
    pair_counts,     \* relation_stats.py:124 Counter
    stats,           \* relation_stats.py:169 the report
    rel_doc,         \* relation_stats.py:42  the loaded relation document
    pairs,           \* relation_stats.py:53  pairs collected by parse_relation_table
    row_idx,         \* relation_stats.py:54  position of the row loop
    error,           \* the exception that ended the run, if any
    args,            \* relation_stats.py:197 parsed command line
    fs,              \* input files under meta-viz/output, by path
    io_log,          \* file operations performed by the run, in order
    out_dirs,        \* directories created under meta-viz/data/stats
    out_files,       \* report files written, by path
    max_retries,     \* fetch_metadata.py:26 safe_get parameter
    backoff,         \* fetch_metadata.py:26 safe_get parameter
    attempt,         \* fetch_metadata.py:32 loop variable
    delay,           \* fetch_metadata.py:31
    requests,        \* outcome of every get() call made, in order
    sleeps,          \* argument of every completed time.sleep(), in order
    result,          \* what safe_get returned
    index_file       \* build_stats_index.py:57 content of data/stats/index.json

statsVars == <<src_uuids, tgt_uuids, raw_pairs, oriented_pairs, misclassified,
               src_deg, tgt_deg, pair_counts, stats>>

parseVars == <<rel_doc, pairs, row_idx>>

cliVars == <<args, fs, io_log, out_dirs, out_files>>

getVars == <<max_retries, backoff, attempt, delay, requests, sleeps, result>>

idxVars == <<index_file>>

vars == <<pc, statsVars, parseVars, error, cliVars, getVars, idxVars>>

----------------------------------------------------------------------------
(* Bounds and input alphabets *)

\* longest raw edge list explored
MaxEdges == 3

\* most rows in a relation table explored
MaxRows == 2

\* identifiers appearing in dumps; universes are arbitrary subsets of them
Ids == {<<"A", "1">>, <<"B", "1">>, <<"X", "1">>}

RawEdges == Ids \X Ids

RECURSIVE SeqsUpTo(_, _)
SeqsUpTo(S, n) ==
    IF n = 0 THEN {<<>>}
    ELSE LET shorter == SeqsUpTo(S, n - 1)
         IN shorter \cup {Append(s, x) : s \in {t \in shorter : Len(t) = n - 1}, x \in S}

----------------------------------------------------------------------------
(* Python helpers: Counter, min/max/sum over dict values *)

\* an empty Counter() / empty dict
EmptyCounter == <<>>

\* a Counter whose first increment of a key is lost (the key is created at 0)
CounterIncFromZero(counter, k) ==
    IF k \in DOMAIN counter
    THEN [counter EXCEPT ![k] = @ + 1]
    ELSE [x \in (DOMAIN counter) \cup {k} |-> IF x = k THEN 0 ELSE counter[x]]

\* counter[k] += 1 on a collections.Counter: a missing key starts at 0
CounterInc(counter, k) ==
    IF k \in DOMAIN counter
    THEN [counter EXCEPT ![k] = @ + 1]
    ELSE [x \in (DOMAIN counter) \cup {k} |-> IF x = k THEN 1 ELSE counter[x]]

Values(counter) == {counter[k] : k \in DOMAIN counter}

MaxOf(S) == CHOOSE m \in S : \A x \in S : x <= m
MinOf(S) == CHOOSE m \in S : \A x \in S : m <= x

RECURSIVE SumOver(_, _)
SumOver(counter, keys) ==
    IF keys = {} THEN 0
    ELSE LET k == CHOOSE x \in keys : TRUE
         IN counter[k] + SumOver(counter, keys \ {k})

\* sum(counter.values())
SumValues(counter) == SumOver(counter, DOMAIN counter)

\* sum(c - 1 for c in counter.values() if c > 1)
RECURSIVE SumExcess(_, _)
SumExcess(counter, keys) ==
    IF keys = {} THEN 0
    ELSE LET k == CHOOSE x \in keys : TRUE
         IN (IF counter[k] > 1 THEN counter[k] - 1 ELSE 0)
            + SumExcess(counter, keys \ {k})

\* sum(1 for c in counter.values() if c >= lo): one per key that passes
CountAtLeast(counter, lo) == Cardinality({k \in DOMAIN counter : counter[k] >= lo})

----------------------------------------------------------------------------
(* relation_stats.py: orientation, lines 103-117 *)

\* the loop body with the two membership tests in the other order
OrientEdgeSwapFirst(e, src, tgt) ==
    LET u0 == e[1]
        u1 == e[2]
    IN IF u1 \in src /\ u0 \in tgt
       THEN [pair |-> <<u1, u0>>, ambiguous |-> 0]
       ELSE IF u0 \in src /\ u1 \in tgt
       THEN [pair |-> <<u0, u1>>, ambiguous |-> 0]
       ELSE [pair |-> <<u0, u1>>, ambiguous |-> 1]

\* the loop body with the fallback branch emitting the pair reversed
OrientEdgeFlipAmbiguous(e, src, tgt) ==
    LET u0 == e[1]
        u1 == e[2]
    IN IF u0 \in src /\ u1 \in tgt
       THEN [pair |-> <<u0, u1>>, ambiguous |-> 0]
       ELSE IF u1 \in src /\ u0 \in tgt
       THEN [pair |-> <<u1, u0>>, ambiguous |-> 0]
       ELSE [pair |-> <<u1, u0>>, ambiguous |-> 1]

\* the loop body without the swap branch
OrientEdgeNoSwap(e, src, tgt) ==
    LET u0 == e[1]
        u1 == e[2]
    IN IF u0 \in src /\ u1 \in tgt
       THEN [pair |-> <<u0, u1>>, ambiguous |-> 0]
       ELSE [pair |-> <<u0, u1>>, ambiguous |-> 1]

\* one iteration of the loop at lines 107-117
OrientEdge(e, src, tgt) ==
    LET u0 == e[1]
        u1 == e[2]
    IN IF u0 \in src /\ u1 \in tgt
       THEN [pair |-> <<u0, u1>>, ambiguous |-> 0]
       ELSE IF u1 \in src /\ u0 \in tgt
       THEN [pair |-> <<u1, u0>>, ambiguous |-> 0]
       ELSE [pair |-> <<u0, u1>>, ambiguous |-> 1]

\* the whole loop: oriented_pairs and misclassified after it
RECURSIVE OrientLoop(_, _, _, _, _)
OrientLoop(raw, i, src, tgt, acc) ==
    IF i > Len(raw) THEN acc
    ELSE LET r == OrientEdge(raw[i], src, tgt)
         IN OrientLoop(raw, i + 1, src, tgt,
                       [oriented_pairs |-> Append(acc.oriented_pairs, r.pair),
                        misclassified |-> acc.misclassified + r.ambiguous])

OrientPairs(raw, src, tgt) ==
    OrientLoop(raw, 1, src, tgt, [oriented_pairs |-> <<>>, misclassified |-> 0])

----------------------------------------------------------------------------
(* relation_stats.py: degree counts and duplicate detection, lines 119-134 *)

\* the loop at lines 126-129
RECURSIVE CountLoop(_, _, _)
CountLoop(oriented, i, acc) ==
    IF i > Len(oriented) THEN acc
    ELSE LET s == oriented[i][1]
             t == oriented[i][2]
         IN CountLoop(oriented, i + 1,
                      [src_deg |-> CounterInc(acc.src_deg, s),
                       tgt_deg |-> CounterInc(acc.tgt_deg, t),
                       pair_counts |-> CounterInc(acc.pair_counts, <<s, t>>)])

CountDegrees(oriented) ==
    CountLoop(oriented, 1, [src_deg |-> EmptyCounter, tgt_deg |-> EmptyCounter,
                            pair_counts |-> EmptyCounter])

\* the edge counts with unique_pairs counting only the repeated pairs
EdgeCountsUniqueRepeated(oriented, counts, ambiguous) ==
    [total_edges |-> Len(oriented),
     unique_pairs |-> CountAtLeast(counts, 2),
     duplicate_edges |-> SumExcess(counts, DOMAIN counts),
     pairs_with_duplicates |-> CountAtLeast(counts, 2),
     ambiguous_pairs |-> ambiguous]

\* lines 131-134 and 179
EdgeCounts(oriented, counts, ambiguous) ==
    [total_edges |-> Len(oriented),
     unique_pairs |-> CountAtLeast(counts, 1),
     duplicate_edges |-> SumExcess(counts, DOMAIN counts),
     pairs_with_duplicates |-> CountAtLeast(counts, 2),
     ambiguous_pairs |-> ambiguous]

\* the float 0.0 / sum(deg_values) / len(deg_values), kept as an exact fraction
Fraction(n, d) == [num |-> n, den |-> d]
ZeroFloat == Fraction(0, 1)

\* the side summary with total_nodes taken from the degree map
summarize_sideConnectedAsTotal(total_nodes, degrees) ==
    IF DOMAIN degrees # {}
    THEN [total_nodes |-> Cardinality(DOMAIN degrees),
          connected_nodes |-> Cardinality(DOMAIN degrees),
          degree_min |-> MinOf(Values(degrees)),
          degree_max |-> MaxOf(Values(degrees)),
          degree_avg |-> Fraction(SumValues(degrees), Cardinality(DOMAIN degrees))]
    ELSE [total_nodes |-> 0,
          connected_nodes |-> 0,
          degree_min |-> 0,
          degree_max |-> 0,
          degree_avg |-> ZeroFloat]

\* lines 136-160 (the node_type label is carried by the caller)
summarize_side(total_nodes, degrees) ==
    IF DOMAIN degrees # {}
    THEN [total_nodes |-> total_nodes,
          connected_nodes |-> Cardinality(DOMAIN degrees),
          degree_min |-> MinOf(Values(degrees)),
          degree_max |-> MaxOf(Values(degrees)),
          degree_avg |-> Fraction(SumValues(degrees), Cardinality(DOMAIN degrees))]
    ELSE [total_nodes |-> total_nodes,
          connected_nodes |-> 0,
          degree_min |-> 0,
          degree_max |-> 0,
          degree_avg |-> ZeroFloat]

\* the classification with strict comparisons (< 1 for <= 1)
classify_cardinalityStrict(src_degrees, tgt_degrees) ==
    IF DOMAIN src_degrees = {} /\ DOMAIN tgt_degrees = {} THEN "empty"
    ELSE LET src_max == IF DOMAIN src_degrees # {} THEN MaxOf(Values(src_degrees)) ELSE 0
             tgt_max == IF DOMAIN tgt_degrees # {} THEN MaxOf(Values(tgt_degrees)) ELSE 0
         IN IF src_max < 1 /\ tgt_max < 1 THEN "one-to-one"
            ELSE IF src_max > 1 /\ tgt_max < 1 THEN "one-to-many"
            ELSE IF src_max < 1 /\ tgt_max > 1 THEN "many-to-one"
            ELSE "many-to-many"

\* lines 66-81
classify_cardinality(src_degrees, tgt_degrees) ==
    IF DOMAIN src_degrees = {} /\ DOMAIN tgt_degrees = {} THEN "empty"
    ELSE LET src_max == IF DOMAIN src_degrees # {} THEN MaxOf(Values(src_degrees)) ELSE 0
             tgt_max == IF DOMAIN tgt_degrees # {} THEN MaxOf(Values(tgt_degrees)) ELSE 0
         IN IF src_max <= 1 /\ tgt_max <= 1 THEN "one-to-one"
            ELSE IF src_max > 1 /\ tgt_max <= 1 THEN "one-to-many"
            ELSE IF src_max <= 1 /\ tgt_max > 1 THEN "many-to-one"
            ELSE "many-to-many"

\* lines 162-184: the report assembled from the locals
BuildStats(src, tgt, oriented, ambiguous, sdeg, tdeg, counts) ==
    [edges |-> EdgeCounts(oriented, counts, ambiguous),
     source |-> summarize_side(Cardinality(src), sdeg),
     target |-> summarize_side(Cardinality(tgt), tdeg),
     cardinality |-> classify_cardinality(sdeg, tdeg)]

\* lines 103-186 as one function of the parsed inputs
compute_relation_stats(raw, src, tgt) ==
    LET o == OrientPairs(raw, src, tgt)
        c == CountDegrees(o.oriented_pairs)
    IN BuildStats(src, tgt, o.oriented_pairs, o.misclassified,
                  c.src_deg, c.tgt_deg, c.pair_counts)

NoStats == [cardinality |-> "none"]

----------------------------------------------------------------------------
(* relation_stats.py: parse_relation_table, lines 37-63 *)

\* JSON values, as far as str() tells them apart; val holds the characters
\* str() renders (for a list: of its contents)
JStr(chars) == [kind |-> "str", val |-> chars]
JNum(digits) == [kind |-> "num", val |-> digits]
JList(inner) == [kind |-> "list", val |-> inner]
JNull == [kind |-> "null", val |-> <<>>]

\* dict.get(key): the value, or None when the key is absent or null
Some(x) == [some |-> TRUE, v |-> x]
None == [some |-> FALSE, v |-> <<>>]

\* "x or []" on the result of a .get(): None and the empty list both give []
OrEmpty(opt) == IF opt.some /\ opt.v # <<>> THEN opt.v ELSE <<>>

\* str(x) of a JSON value
PyStr(cell) ==
    CASE cell.kind = "str" -> cell.val
      [] cell.kind = "num" -> cell.val
      [] cell.kind = "list" -> <<"[">> \o cell.val \o <<"]">>
      [] cell.kind = "null" -> <<"N", "o", "n", "e">>

Whitespace == {" ", "\t"}

RECURSIVE LStrip(_)
LStrip(s) == IF s # <<>> /\ Head(s) \in Whitespace THEN LStrip(Tail(s)) ELSE s

RECURSIVE RStrip(_)
RStrip(s) ==
    IF s # <<>> /\ s[Len(s)] \in Whitespace THEN RStrip(SubSeq(s, 1, Len(s) - 1)) ELSE s

\* str.strip()
Strip(s) == RStrip(LStrip(s))

\* one iteration of the loop at lines 54-61: the pairs the row appends
ParseRow(row) ==
    LET vals == OrEmpty(row.values)
    IN IF Len(vals) < 2 THEN <<>>
       ELSE LET u0 == Strip(PyStr(vals[1]))
                u1 == Strip(PyStr(vals[2]))
            IN IF u0 # <<>> /\ u1 # <<>> THEN <<(<<u0, u1>>)>> ELSE <<>>

\* line 46: doc.get("result") or {}; every .get() on the empty dict is None
ResultOf(doc) == IF doc.result.some THEN doc.result.v ELSE [headers |-> None, rows |-> None]

\* lines 47-48
Headers(doc) == OrEmpty(ResultOf(doc).headers)
Rows(doc) == OrEmpty(ResultOf(doc).rows)

NoError == [kind |-> "none", what |-> "none"]
NoDoc == [type |-> "none", result |-> None]

\* cells and rows the table documents are built from
Cells == {JStr(<<>>), JStr(<<" ", "\t">>), JStr(<<" ", "A", "1", "\t">>), JStr(<<"B", "1">>),
          JNull, JNum(<<"7">>), JList(<<>>)}

RowSamples ==
    {[values |-> None], [values |-> Some(<<>>)], [values |-> Some(<<JStr(<<"B", "1">>)>>)],
     [values |-> Some(<<JStr(<<"B", "1">>), JStr(<<"A", "1">>), JNull>>)]}
    \cup {[values |-> Some(<<c0, c1>>)] : c0 \in Cells, c1 \in Cells}

TableDoc(rows) ==
    [type |-> "TABLE",
     result |-> Some([headers |-> Some(<<"h0", "h1">>), rows |-> Some(rows)])]

MalformedDocs ==
    {[type |-> "LIST", result |-> Some([headers |-> Some(<<"h0", "h1">>), rows |-> None])],
     [type |-> "TABLE", result |-> None],
     [type |-> "TABLE", result |-> Some([headers |-> None, rows |-> None])],
     [type |-> "TABLE", result |-> Some([headers |-> Some(<<"h0">>),
                                        rows |-> Some(<<[values |-> Some(<<JStr(<<"B", "1">>)>>)]>>)])]}

RelationDocs ==
    {TableDoc(rows) : rows \in SeqsUpTo(RowSamples, MaxRows)} \cup MalformedDocs
       \cup {[type |-> "TABLE", result |-> Some([headers |-> Some(<<"h0", "h1", "h2">>), rows |-> None])]}

IdleStats ==
    /\ src_uuids = {}
    /\ tgt_uuids = {}
    /\ raw_pairs = <<>>
    /\ oriented_pairs = <<>>
    /\ misclassified = 0
    /\ src_deg = EmptyCounter
    /\ tgt_deg = EmptyCounter
    /\ pair_counts = EmptyCounter
    /\ stats = NoStats

IdleParse ==
    /\ rel_doc = NoDoc
    /\ pairs = <<>>
    /\ row_idx = 0

NoArgs == [snapshot |-> "", relation |-> "", source_type |-> "", target_type |-> ""]

IdleCli ==
    /\ args = NoArgs
    /\ fs = <<>>
    /\ io_log = <<>>
    /\ out_dirs = {}
    /\ out_files = <<>>

Pending == [kind |-> "pending", status |-> 0]

\* no index.json on disk
NoIndex == [written |-> FALSE, snapshots |-> <<>>]

IdleIndex == index_file = NoIndex

IdleGet ==
    /\ max_retries = 0
    /\ backoff = 0
    /\ attempt = 0
    /\ delay = 0
    /\ requests = <<>>
    /\ sleeps = <<>>
    /\ result = Pending

\* lines 43-44, 50-51: the two format checks
ParseReject ==
    /\ pc = "parse_start"
    /\ \/ /\ rel_doc.type # "TABLE"
          /\ error' = [kind |-> "ValueError", what |-> "is not a TABLE relation JSON"]
       \/ /\ rel_doc.type = "TABLE"
          /\ Len(Headers(rel_doc)) < 2
          /\ error' = [kind |-> "ValueError", what |-> "must have at least two columns"]
    /\ pc' = "failed"
    /\ UNCHANGED <<statsVars, parseVars, cliVars, getVars, idxVars>>

\* lines 46-53: both checks pass, the row loop starts
ParseBegin ==
    /\ pc = "parse_start"
    /\ rel_doc.type = "TABLE"
    /\ Len(Headers(rel_doc)) >= 2
    /\ pairs' = <<>>
    /\ row_idx' = 1
    /\ pc' = "parse_rows"
    /\ UNCHANGED <<statsVars, rel_doc, error, cliVars, getVars, idxVars>>

\* lines 54-61: one row
ParseNextRow ==
    /\ pc = "parse_rows"
    /\ row_idx <= Len(Rows(rel_doc))
    /\ pairs' = pairs \o ParseRow(Rows(rel_doc)[row_idx])
    /\ row_idx' = row_idx + 1
    /\ UNCHANGED <<pc, statsVars, rel_doc, error, cliVars, getVars, idxVars>>

\* line 63 and line 101: the list is returned to compute_relation_stats
ParseReturn ==
    /\ pc = "parse_rows"
    /\ row_idx > Len(Rows(rel_doc))
    /\ raw_pairs' = pairs
    /\ pc' = "parsed"
    /\ UNCHANGED <<src_uuids, tgt_uuids, oriented_pairs, misclassified,
                   src_deg, tgt_deg, pair_counts, stats, parseVars, error, cliVars, getVars, idxVars>>

InitParse ==
    /\ pc = "parse_start"
    /\ rel_doc \in RelationDocs
    /\ pairs = <<>>
    /\ row_idx = 0
    /\ error = NoError
    /\ IdleStats
    /\ IdleCli
    /\ IdleGet
    /\ IdleIndex

NextParse == ParseReject \/ ParseBegin \/ ParseNextRow \/ ParseReturn

SpecParse == InitParse /\ [][NextParse]_vars

----------------------------------------------------------------------------
(* Spec: compute_relation_stats run on every bounded input *)

Init ==
    /\ IdleParse
    /\ IdleCli
    /\ IdleGet
    /\ IdleIndex
    /\ error = NoError
    /\ pc = "parsed"
    /\ src_uuids \in SUBSET Ids
    /\ tgt_uuids \in SUBSET Ids
    /\ raw_pairs \in SeqsUpTo(RawEdges, MaxEdges)
    /\ oriented_pairs = <<>>
    /\ misclassified = 0
    /\ src_deg = EmptyCounter
    /\ tgt_deg = EmptyCounter
    /\ pair_counts = EmptyCounter
    /\ stats = NoStats

\* lines 103-117
Orient ==
    /\ pc = "parsed"
    /\ LET o == OrientPairs(raw_pairs, src_uuids, tgt_uuids)
       IN /\ oriented_pairs' = o.oriented_pairs
          /\ misclassified' = o.misclassified
    /\ pc' = "oriented"
    /\ UNCHANGED <<src_uuids, tgt_uuids, raw_pairs, src_deg, tgt_deg, pair_counts, stats>>
    /\ UNCHANGED <<parseVars, error, cliVars, getVars, idxVars>>

\* lines 119-129
Aggregate ==
    /\ pc = "oriented"
    /\ LET c == CountDegrees(oriented_pairs)
       IN /\ src_deg' = c.src_deg
          /\ tgt_deg' = c.tgt_deg
          /\ pair_counts' = c.pair_counts
    /\ pc' = "counted"
    /\ UNCHANGED <<src_uuids, tgt_uuids, raw_pairs, oriented_pairs, misclassified, stats>>
    /\ UNCHANGED <<parseVars, error, cliVars, getVars, idxVars>>

\* lines 131-186
Report ==
    /\ pc = "counted"
    /\ stats' = BuildStats(src_uuids, tgt_uuids, oriented_pairs, misclassified,
                           src_deg, tgt_deg, pair_counts)
    /\ pc' = "returned"
    /\ UNCHANGED <<src_uuids, tgt_uuids, raw_pairs, oriented_pairs, misclassified,
                   src_deg, tgt_deg, pair_counts>>
    /\ UNCHANGED <<parseVars, error, cliVars, getVars, idxVars>>

Next == Orient \/ Aggregate \/ Report

Spec == Init /\ [][Next]_vars

----------------------------------------------------------------------------
(* relation_stats.py: node dumps, lines 12-34 *)

\* truth value of a JSON value in "if u:"
Truthy(cell) ==
    CASE cell.kind = "str" -> cell.val # <<>>
      [] cell.kind = "num" -> cell.val # <<"0">>
      [] cell.kind = "list" -> cell.val # <<>>
      [] cell.kind = "null" -> FALSE

\* lines 17-23: the record list of a node document, None for ValueError
get_result_array(doc) ==
    IF doc.shape \in {"wrapped", "list"} THEN Some(doc.records) ELSE None

\* lines 29-34 over the record list
UuidSet(records) ==
    {PyStr(records[i].uuid.v) :
        i \in {j \in 1..Len(records) : records[j].uuid.some /\ Truthy(records[j].uuid.v)}}

WithUuid(chars) == [uuid |-> Some(JStr(chars))]
WithoutUuid == [uuid |-> None]

\* a file: absent, unparsable, or holding a JSON document
AbsentFile == [exists |-> FALSE, json_ok |-> FALSE, doc |-> <<>>]
GarbledFile == [exists |-> TRUE, json_ok |-> FALSE, doc |-> <<>>]
JsonFile(d) == [exists |-> TRUE, json_ok |-> TRUE, doc |-> d]

NodeFiles ==
    {AbsentFile, GarbledFile,
     JsonFile([shape |-> "other", records |-> <<>>]),
     JsonFile([shape |-> "list",
               records |-> <<WithUuid(<<"A", "1">>), WithoutUuid, WithUuid(<<>>),
                             WithUuid(<<"X", "1">>), WithUuid(<<"A", "1">>)>>]),
     JsonFile([shape |-> "wrapped",
               records |-> <<WithUuid(<<"B", "1">>), [uuid |-> Some(JNull)]>>])}

Cell(chars) == JStr(chars)
TwoCells(a, b) == [values |-> Some(<<Cell(a), Cell(b)>>)]

RelationFiles ==
    {AbsentFile, GarbledFile}
    \cup {JsonFile(d) : d \in MalformedDocs}
    \cup {JsonFile(TableDoc(<<>>)),
          JsonFile(TableDoc(<<TwoCells(<<"A", "1">>, <<"B", "1">>),
                              TwoCells(<<"B", "1">>, <<" ", "A", "1">>),
                              [values |-> Some(<<Cell(<<"A", "1">>)>>)],
                              TwoCells(<<"A", "1">>, <<"B", "1">>)>>)),
          JsonFile(TableDoc(<<TwoCells(<<"X", "1">>, <<"Q", "9">>),
                              TwoCells(<<"A", "1">>, <<"B", "1">>)>>))}

----------------------------------------------------------------------------
(* relation_stats.py: main, lines 189-226 *)

Snapshots == {"2025-11-10"}
RelationNames == {"PO_je_gestor_KS"}
NodeTypes == {"PO", "KS"}

\* f"{name}.json"
JsonName(stem) == <<stem, "json">>

\* lines 201-203, relative to meta-viz/
RelPath(a) == <<"output", "relations", JsonName(a.relation)>>
SrcNodesPath(a) == <<"output", "nodes", JsonName(a.source_type)>>
TgtNodesPath(a) == <<"output", "nodes", JsonName(a.target_type)>>

\* lines 220, 222
OutDir(a) == <<"data", "stats", a.snapshot, "relations">>
OutPath(a) == <<"data", "stats", a.snapshot, "relations", JsonName(a.relation)>>

\* lines 92-94, 169-184: the document written, the names taken from the path stems
ReportDocument(a, st) ==
    [snapshot |-> a.snapshot,
     relation_name |-> RelPath(a)[3][1],
     source_type |-> SrcNodesPath(a)[3][1],
     target_type |-> TgtNodesPath(a)[3][1],
     report |-> st]

FileNotFound(path) == [kind |-> "FileNotFoundError", what |-> path]

Fail(e) ==
    /\ error' = e
    /\ pc' = "failed"

\* is_file() at lines 205, 207, 209 without the check: every path passes
IsFileAlways(path) == TRUE

\* Path.is_file()
IsFile(path) == fs[path].exists

\* lines 205-206
CheckRelation ==
    /\ pc = "check_rel"
    /\ IF IsFile(RelPath(args)) THEN pc' = "check_src" /\ UNCHANGED error
       ELSE Fail(FileNotFound(RelPath(args)))
    /\ UNCHANGED <<statsVars, parseVars, cliVars, getVars, idxVars>>

\* lines 207-208
CheckSourceNodes ==
    /\ pc = "check_src"
    /\ IF IsFile(SrcNodesPath(args)) THEN pc' = "check_tgt" /\ UNCHANGED error
       ELSE Fail(FileNotFound(SrcNodesPath(args)))
    /\ UNCHANGED <<statsVars, parseVars, cliVars, getVars, idxVars>>

\* lines 209-210
CheckTargetNodes ==
    /\ pc = "check_tgt"
    /\ IF IsFile(TgtNodesPath(args)) THEN pc' = "load_src" /\ UNCHANGED error
       ELSE Fail(FileNotFound(TgtNodesPath(args)))
    /\ UNCHANGED <<statsVars, parseVars, cliVars, getVars, idxVars>>

\* load_json followed by get_result_array: the exception, or NoError
NodeLoadError(path) ==
    IF ~fs[path].exists THEN FileNotFound(path)
    ELSE IF ~fs[path].json_ok THEN [kind |-> "JSONDecodeError", what |-> path]
    ELSE IF ~get_result_array(fs[path].doc).some
    THEN [kind |-> "ValueError", what |-> "Unrecognized raw JSON format for nodes."]
    ELSE NoError

\* build_uuid_set_for_type(path) for a path that loads
build_uuid_set_for_type(path) == UuidSet(get_result_array(fs[path].doc).v)

\* line 97
LoadSourceNodes ==
    /\ pc = "load_src"
    /\ io_log' = Append(io_log, <<"open", SrcNodesPath(args)>>)
    /\ IF NodeLoadError(SrcNodesPath(args)) = NoError
       THEN /\ src_uuids' = build_uuid_set_for_type(SrcNodesPath(args))
            /\ pc' = "load_tgt"
            /\ UNCHANGED error
       ELSE /\ Fail(NodeLoadError(SrcNodesPath(args)))
            /\ UNCHANGED src_uuids
    /\ UNCHANGED <<tgt_uuids, raw_pairs, oriented_pairs, misclassified,
                   src_deg, tgt_deg, pair_counts, stats, parseVars,
                   args, fs, out_dirs, out_files, getVars, idxVars>>

\* line 98
LoadTargetNodes ==
    /\ pc = "load_tgt"
    /\ io_log' = Append(io_log, <<"open", TgtNodesPath(args)>>)
    /\ IF NodeLoadError(TgtNodesPath(args)) = NoError
       THEN /\ tgt_uuids' = build_uuid_set_for_type(TgtNodesPath(args))
            /\ pc' = "load_rel"
            /\ UNCHANGED error
       ELSE /\ Fail(NodeLoadError(TgtNodesPath(args)))
            /\ UNCHANGED tgt_uuids
    /\ UNCHANGED <<src_uuids, raw_pairs, oriented_pairs, misclassified,
                   src_deg, tgt_deg, pair_counts, stats, parseVars,
                   args, fs, out_dirs, out_files, getVars, idxVars>>

\* lines 101 and 42: load_json of the relation dump
LoadRelation ==
    /\ pc = "load_rel"
    /\ io_log' = Append(io_log, <<"open", RelPath(args)>>)
    /\ IF ~fs[RelPath(args)].exists
       THEN Fail(FileNotFound(RelPath(args))) /\ UNCHANGED rel_doc
       ELSE IF ~fs[RelPath(args)].json_ok
       THEN Fail([kind |-> "JSONDecodeError", what |-> RelPath(args)]) /\ UNCHANGED rel_doc
       ELSE /\ rel_doc' = fs[RelPath(args)].doc
            /\ pc' = "parse_start"
            /\ UNCHANGED error
    /\ UNCHANGED <<statsVars, pairs, row_idx, args, fs, out_dirs, out_files, getVars, idxVars>>

\* a directory path and every ancestor of it
WithParents(dir) == {SubSeq(dir, 1, k) : k \in 1..Len(dir)}

\* lines 220-221: mkdir(parents=True, exist_ok=True)
MakeOutDir ==
    /\ pc = "returned"
    /\ out_dirs' = out_dirs \cup WithParents(OutDir(args))
    /\ io_log' = Append(io_log, <<"mkdir", OutDir(args)>>)
    /\ pc' = "write"
    /\ UNCHANGED <<statsVars, parseVars, error, args, fs, out_files, getVars, idxVars>>

\* out_files with one file created or overwritten
WriteFile(files, path, content) ==
    [q \in (DOMAIN files) \cup {path} |-> IF q = path THEN content ELSE files[q]]

\* lines 222-226
WriteReport ==
    /\ pc = "write"
    /\ out_files' = WriteFile(out_files, OutPath(args), ReportDocument(args, stats))
    /\ io_log' = Append(io_log, <<"write", OutPath(args)>>)
    /\ pc' = "exit"
    /\ UNCHANGED <<statsVars, parseVars, error, args, fs, out_dirs, getVars, idxVars>>

InitCli ==
    /\ pc = "check_rel"
    /\ args \in [snapshot : Snapshots, relation : RelationNames,
                  source_type : NodeTypes, target_type : NodeTypes]
    /\ \E r \in RelationFiles, po \in NodeFiles, ks \in NodeFiles :
          fs = [q \in {<<"output", "relations", JsonName(args.relation)>>,
                       <<"output", "nodes", JsonName("PO")>>,
                       <<"output", "nodes", JsonName("KS")>>} |->
                   IF q[2] = "relations" THEN r
                   ELSE IF q[3][1] = "PO" THEN po ELSE ks]
    /\ io_log = <<>>
    /\ out_dirs = {}
    /\ out_files = <<>>
    /\ error = NoError
    /\ IdleStats
    /\ IdleParse
    /\ IdleGet
    /\ IdleIndex

NextCli ==
    \/ CheckRelation \/ CheckSourceNodes \/ CheckTargetNodes
    \/ LoadSourceNodes \/ LoadTargetNodes \/ LoadRelation
    \/ ParseReject \/ ParseBegin \/ ParseNextRow \/ ParseReturn
    \/ Orient \/ Aggregate \/ Report
    \/ MakeOutDir \/ WriteReport

SpecCli == InitCli /\ [][NextCli]_vars

----------------------------------------------------------------------------
(* fetch_metadata.py: safe_get, lines 26-47 *)

\* largest max_retries and backoff explored (backoff from -1, max_retries from 0)
MaxRetries == 5
MaxBackoff == 3

\* defaults of the signature at line 26
DefaultMaxRetries == 5
DefaultBackoff == 2

\* what one get() call can do: raise a requests exception, or answer
NetworkError == [kind |-> "exception", status |-> 0]
Response(code) == [kind |-> "response", status |-> code]
Outcomes == {NetworkError, Response(200), Response(404), Response(500), Response(503)}

ReturnedNone == [kind |-> "none", status |-> 0]

\* lines 34-39: the attempt ends in the except clause
Retryable(o) == o.kind = "exception" \/ o.status >= 500

\* the delay update as an addition
NextDelayAdditive(d, b) == d + b

\* line 43: delay *= backoff
NextDelay(d, b) == d * b

InitGet ==
    /\ pc = "sg_loop"
    /\ max_retries \in 0..MaxRetries
    /\ backoff \in -1..MaxBackoff
    /\ attempt = 1
    /\ delay = 1
    /\ requests = <<>>
    /\ sleeps = <<>>
    /\ result = Pending
    /\ error = NoError
    /\ IdleStats
    /\ IdleParse
    /\ IdleCli
    /\ IdleIndex

\* lines 34-38: the attempt answers below 500 and is returned
GetReturns ==
    /\ pc = "sg_loop"
    /\ attempt <= max_retries
    /\ \E o \in Outcomes :
          /\ ~Retryable(o)
          /\ requests' = Append(requests, o)
          /\ result' = o
    /\ pc' = "sg_done"
    /\ UNCHANGED <<statsVars, parseVars, cliVars, idxVars, error,
                   max_retries, backoff, attempt, delay, sleeps>>

\* lines 39-44: a failed attempt that is not the last: sleep, grow the delay
GetRetries ==
    /\ pc = "sg_loop"
    /\ attempt <= max_retries
    /\ attempt < max_retries
    /\ delay >= 0
    /\ \E o \in Outcomes :
          /\ Retryable(o)
          /\ requests' = Append(requests, o)
    /\ sleeps' = Append(sleeps, delay)
    /\ delay' = NextDelay(delay, backoff)
    /\ attempt' = attempt + 1
    /\ UNCHANGED <<pc, statsVars, parseVars, cliVars, idxVars, error,
                   max_retries, backoff, result>>

\* line 42 with a negative delay: time.sleep raises ValueError out of safe_get
GetSleepRaises ==
    /\ pc = "sg_loop"
    /\ attempt <= max_retries
    /\ attempt < max_retries
    /\ delay < 0
    /\ \E o \in Outcomes :
          /\ Retryable(o)
          /\ requests' = Append(requests, o)
    /\ error' = [kind |-> "ValueError", what |-> "sleep length must be non-negative"]
    /\ pc' = "sg_raised"
    /\ UNCHANGED <<statsVars, parseVars, cliVars, idxVars,
                   max_retries, backoff, attempt, delay, sleeps, result>>

\* lines 45-47: the last attempt failed
GetGivesUp ==
    /\ pc = "sg_loop"
    /\ attempt <= max_retries
    /\ ~(attempt < max_retries)
    /\ \E o \in Outcomes :
          /\ Retryable(o)
          /\ requests' = Append(requests, o)
    /\ result' = ReturnedNone
    /\ pc' = "sg_done"
    /\ UNCHANGED <<statsVars, parseVars, cliVars, idxVars, error,
                   max_retries, backoff, attempt, delay, sleeps>>

\* line 32 with an empty range: the function falls off its end
GetNoAttempt ==
    /\ pc = "sg_loop"
    /\ attempt > max_retries
    /\ result' = ReturnedNone
    /\ pc' = "sg_done"
    /\ UNCHANGED <<statsVars, parseVars, cliVars, idxVars, error,
                   max_retries, backoff, attempt, delay, requests, sleeps>>

NextGet == GetReturns \/ GetRetries \/ GetSleepRaises \/ GetGivesUp \/ GetNoAttempt

\* the calls are sequential and each get() (timeout) and sleep() ends
SpecGet == InitGet /\ [][NextGet]_vars /\ WF_vars(NextGet)

----------------------------------------------------------------------------
(* build_stats_index.py: main, lines 11-60 *)

\* line 7, relative to meta-viz/
STATS_ROOT == <<"data", "stats">>

\* lines 25-26: the two subdirectories the indexer reads
AttrsSubdir == "attributes"
RelsSubdir == "relation_attributes"

\* names in the order sorted() gives them
SnapshotOrder == <<"2025-11-03", "2025-11-10">>
StemOrder == <<"KS", "Old_relation", "PO", "PO_je_gestor_KS">>

SeqToSet(q) == {q[i] : i \in 1..Len(q)}

\* sorted(names) for names among those of order
RECURSIVE SortedBy(_, _)
SortedBy(order, names) ==
    IF order = <<>> THEN <<>>
    ELSE (IF Head(order) \in names THEN <<Head(order)>> ELSE <<>>)
         \o SortedBy(Tail(order), names)

\* Path.is_dir()
IsDir(dir) == dir \in out_dirs

\* line 19: the entries of STATS_ROOT that are directories (lines 20-21)
DateDirs == {d[3] : d \in {q \in out_dirs : Len(q) = 3 /\ SubSeq(q, 1, 2) = STATS_ROOT}}

\* lines 33-35, 41-43: stems of dir.glob("*.json")
JsonStems(dir) ==
    {q[Len(q)][1] :
        q \in {f \in DOMAIN out_files :
                  /\ Len(f) = Len(dir) + 1
                  /\ SubSeq(f, 1, Len(dir)) = dir
                  /\ f[Len(f)][2] = "json"}}

\* lines 28-46: the two lists of one date directory
StemsUnder(date, sub) ==
    IF IsDir(STATS_ROOT \o <<date, sub>>)
    THEN SortedBy(StemOrder, JsonStems(STATS_ROOT \o <<date, sub>>))
    ELSE <<>>

SnapshotEntry(date) ==
    [date |-> date,
     node_types |-> StemsUnder(date, AttrsSubdir),
     relations |-> StemsUnder(date, RelsSubdir)]

\* lines 19-53: the loop over the sorted date directories
RECURSIVE SnapshotEntries(_)
SnapshotEntries(dates) ==
    IF dates = <<>> THEN <<>>
    ELSE LET e == SnapshotEntry(Head(dates))
         IN (IF e.node_types # <<>> \/ e.relations # <<>> THEN <<e>> ELSE <<>>)
            \o SnapshotEntries(Tail(dates))

\* lines 13-15: nothing to index
IndexNothing ==
    /\ pc \in {"exit", "failed"}
    /\ ~IsDir(STATS_ROOT)
    /\ pc' = "index_skipped"
    /\ UNCHANGED <<statsVars, parseVars, error, cliVars, getVars, idxVars>>

\* lines 19-60: the index is built and written
IndexWrite ==
    /\ pc \in {"exit", "failed"}
    /\ IsDir(STATS_ROOT)
    /\ index_file' = [written |-> TRUE,
                      snapshots |-> SnapshotEntries(SortedBy(SnapshotOrder, DateDirs))]
    /\ io_log' = Append(io_log, <<"write", STATS_ROOT \o <<(<<"index", "json">>)>>>>)
    /\ pc' = "indexed"
    /\ UNCHANGED <<statsVars, parseVars, error, args, fs, out_dirs, out_files, getVars>>

\* files other collaborators may have left under data/stats
StatsFile(date, sub, stem, ext) == STATS_ROOT \o <<date, sub, <<stem, ext>>>>

PriorFiles ==
    {StatsFile("2025-11-10", "attributes", "KS", "json"),
     StatsFile("2025-11-10", "attributes", "PO", "txt"),
     StatsFile("2025-11-10", "relation_attributes", "Old_relation", "json"),
     StatsFile("2025-11-03", "attributes", "PO", "json"),
     StatsFile("2025-11-03", "relations", "PO_je_gestor_KS", "json")}

PriorContent == [snapshot |-> "prior"]

InitIndex ==
    /\ pc = "check_rel"
    /\ args \in [snapshot : Snapshots, relation : RelationNames,
                  source_type : NodeTypes, target_type : NodeTypes]
    /\ \E r \in RelationFiles, po \in NodeFiles, ks \in NodeFiles :
          fs = [q \in {<<"output", "relations", JsonName(args.relation)>>,
                       <<"output", "nodes", JsonName("PO")>>,
                       <<"output", "nodes", JsonName("KS")>>} |->
                   IF q[2] = "relations" THEN r
                   ELSE IF q[3][1] = "PO" THEN po ELSE ks]
    /\ \E prior \in SUBSET PriorFiles :
          /\ out_files = [f \in prior |-> PriorContent]
          /\ out_dirs = UNION {WithParents(SubSeq(f, 1, Len(f) - 1)) : f \in prior}
    /\ io_log = <<>>
    /\ error = NoError
    /\ IdleStats
    /\ IdleParse
    /\ IdleGet
    /\ IdleIndex

NextIndex == NextCli \/ IndexNothing \/ IndexWrite

SpecIndex == InitIndex /\ [][NextIndex]_vars

----------------------------------------------------------------------------
(* Properties of compute_relation_stats, checked under Spec *)

Oriented == pc \in {"oriented", "counted", "returned"}
Counted == pc \in {"counted", "returned"}
Returned == pc = "returned"

EdgeIdx == 1..Len(oriented_pairs)

\* indices of oriented edges that repeat an earlier edge
LaterOccurrences == {i \in EdgeIdx : \E j \in 1..(i - 1) : oriented_pairs[j] = oriented_pairs[i]}

DistinctPairs == {oriented_pairs[i] : i \in EdgeIdx}

\* C1: in every report total_edges = unique_pairs + duplicate_edges, where
\* unique_pairs is the number of distinct oriented pairs and duplicate_edges
\* the number of edges beyond the first occurrence of each pair.
C1_EdgeCountsConsistent ==
    Returned =>
        /\ stats.edges.total_edges = stats.edges.unique_pairs + stats.edges.duplicate_edges
        /\ stats.edges.total_edges = Len(raw_pairs)
        /\ stats.edges.unique_pairs = Cardinality(DistinctPairs)
        /\ stats.edges.duplicate_edges = Cardinality(LaterOccurrences)

C1_Witness ==
    /\ Returned
    /\ stats.edges.duplicate_edges = 2
    /\ stats.edges.unique_pairs = 1

\* C2: after aggregation the source degrees and the target degrees each sum
\* to the number of edges (ambiguous ones included) and no degree entry is 0.
C2_DegreeSums ==
    Counted =>
        /\ SumValues(src_deg) = Len(raw_pairs)
        /\ SumValues(tgt_deg) = Len(raw_pairs)
        /\ Returned => stats.edges.total_edges = Len(raw_pairs)
        /\ \A k \in DOMAIN src_deg : src_deg[k] >= 1
        /\ \A k \in DOMAIN tgt_deg : tgt_deg[k] >= 1
        /\ DOMAIN src_deg = {oriented_pairs[i][1] : i \in EdgeIdx}
        /\ DOMAIN tgt_deg = {oriented_pairs[i][2] : i \in EdgeIdx}

C2_Witness ==
    /\ Counted
    /\ misclassified >= 1
    /\ Len(raw_pairs) = 3
    /\ Cardinality(DOMAIN src_deg) = 2
    /\ Cardinality(DOMAIN tgt_deg) = 3

MatchesAsIs(e) == e[1] \in src_uuids /\ e[2] \in tgt_uuids
MatchesSwapped(e) == e[2] \in src_uuids /\ e[1] \in tgt_uuids
Reversed(e) == <<e[2], e[1]>>

\* C3: the oriented list is the element-wise image of the raw list, in order:
\* (a,b) kept if it matches as is (also when it matches both ways), else
\* reversed if it matches swapped, else kept and counted as ambiguous.
C3_OrientationElementwise ==
    Oriented =>
        /\ Len(oriented_pairs) = Len(raw_pairs)
        /\ \A i \in 1..Len(raw_pairs) :
               oriented_pairs[i] =
                   IF MatchesAsIs(raw_pairs[i]) THEN raw_pairs[i]
                   ELSE IF MatchesSwapped(raw_pairs[i]) THEN Reversed(raw_pairs[i])
                   ELSE raw_pairs[i]
        /\ misclassified =
               Cardinality({i \in 1..Len(raw_pairs) :
                               ~MatchesAsIs(raw_pairs[i]) /\ ~MatchesSwapped(raw_pairs[i])})

C3_Witness ==
    /\ Oriented
    /\ Len(raw_pairs) = 3
    /\ MatchesAsIs(raw_pairs[1]) /\ MatchesSwapped(raw_pairs[1])
    /\ raw_pairs[1][1] # raw_pairs[1][2]
    /\ ~MatchesAsIs(raw_pairs[2]) /\ MatchesSwapped(raw_pairs[2])
    /\ ~MatchesAsIs(raw_pairs[3]) /\ ~MatchesSwapped(raw_pairs[3])

\* C4: orienting the oriented list again with the same universes returns the
\* same list and the same ambiguous count.
C4_OrientIdempotent ==
    Oriented =>
        OrientPairs(oriented_pairs, src_uuids, tgt_uuids)
            = [oriented_pairs |-> oriented_pairs, misclassified |-> misclassified]

C4_Witness ==
    /\ Oriented
    /\ src_uuids \cap tgt_uuids # {}
    /\ misclassified = 1
    /\ \E i \in EdgeIdx : oriented_pairs[i] # raw_pairs[i]
    /\ \E i \in EdgeIdx : MatchesAsIs(raw_pairs[i]) /\ MatchesSwapped(raw_pairs[i])
                              /\ raw_pairs[i][1] # raw_pairs[i][2]

Mirror(label) ==
    IF label = "one-to-many" THEN "many-to-one"
    ELSE IF label = "many-to-one" THEN "one-to-many"
    ELSE label

\* the run with the two universes exchanged
RelabeledCardinality == compute_relation_stats(raw_pairs, tgt_uuids, src_uuids).cardinality

\* C5 as stated: for every edge list and universes, exchanging the universes
\* exchanges one-to-many and many-to-one and keeps the other labels.
C5_RelabelSymmetric_AsStated ==
    Returned => RelabeledCardinality = Mirror(stats.cardinality)

ExactlyOneOrientation(e) == MatchesAsIs(e) # MatchesSwapped(e)

\* C5 amended: the exchange holds for edge lists in which every edge matches
\* exactly one of the two orientations (no ambiguous edge, no edge with both
\* ends in both universes).
C5_RelabelSymmetric ==
    (Returned /\ \A i \in 1..Len(raw_pairs) : ExactlyOneOrientation(raw_pairs[i]))
        => RelabeledCardinality = Mirror(stats.cardinality)

C5_Witness ==
    /\ Returned
    /\ Len(raw_pairs) = 2
    /\ \A i \in 1..Len(raw_pairs) : ExactlyOneOrientation(raw_pairs[i])
    /\ \E i \in 1..Len(raw_pairs) : MatchesSwapped(raw_pairs[i])
    /\ stats.cardinality = "one-to-many"
    /\ RelabeledCardinality = "many-to-one"

\* degree of an identifier on one side, counted on the oriented list
DegreeAt(id, side) == Cardinality({i \in EdgeIdx : oriented_pairs[i][side] = id})
MaxDegree(side) == MaxOf({DegreeAt(id, side) : id \in Ids} \cup {0})

\* C6: the label is decided by the two maximum degrees: empty exactly when
\* there is no oriented edge, otherwise the four-way split at degree 1.
C6_CardinalityByMaxDegree ==
    Returned =>
        LET ms == MaxDegree(1)
            mt == MaxDegree(2)
        IN /\ stats.cardinality \in {"empty", "one-to-one", "one-to-many",
                                      "many-to-one", "many-to-many"}
           /\ (stats.cardinality = "empty") <=> (Len(oriented_pairs) = 0)
           /\ (stats.cardinality = "empty") <=> (DOMAIN src_deg = {} /\ DOMAIN tgt_deg = {})
           /\ Len(oriented_pairs) > 0 =>
                 /\ (stats.cardinality = "one-to-one") <=> (ms <= 1 /\ mt <= 1)
                 /\ (stats.cardinality = "one-to-many") <=> (ms > 1 /\ mt <= 1)
                 /\ (stats.cardinality = "many-to-one") <=> (ms <= 1 /\ mt > 1)
                 /\ (stats.cardinality = "many-to-many") <=> (ms > 1 /\ mt > 1)

C6_Witness ==
    /\ Returned
    /\ stats.cardinality = "many-to-many"
    /\ Cardinality(DistinctPairs) = 3

\* C7: with zero valid rows the report is 'empty', every edge count is 0 and
\* both sides report connected_nodes = degree_min = degree_max = 0 and
\* degree_avg = 0.0, while total_nodes is the size of the side's universe.
C7_EmptyRelation ==
    (Returned /\ raw_pairs = <<>>) =>
        /\ stats.cardinality = "empty"
        /\ stats.edges = [total_edges |-> 0, unique_pairs |-> 0, duplicate_edges |-> 0,
                          pairs_with_duplicates |-> 0, ambiguous_pairs |-> 0]
        /\ stats.source = [total_nodes |-> Cardinality(src_uuids), connected_nodes |-> 0,
                           degree_min |-> 0, degree_max |-> 0, degree_avg |-> ZeroFloat]
        /\ stats.target = [total_nodes |-> Cardinality(tgt_uuids), connected_nodes |-> 0,
                           degree_min |-> 0, degree_max |-> 0, degree_avg |-> ZeroFloat]

C7_Witness ==
    /\ Returned
    /\ raw_pairs = <<>>
    /\ Cardinality(src_uuids) = 2
    /\ Cardinality(tgt_uuids) = 3

----------------------------------------------------------------------------
(* Properties of parse_relation_table, checked under SpecParse *)

\* a cell the extractor must not use: null or non-scalar
Unusable(cell) == cell.kind \in {"null", "list"}

\* the row rule as stated: skipped when a value is missing, null, non-scalar
\* or empty once trimmed; otherwise the two trimmed strings
StatedRow(row) ==
    LET vals == IF row.values.some THEN row.values.v ELSE <<>>
    IN IF Len(vals) < 2 THEN <<>>
       ELSE IF Unusable(vals[1]) \/ Unusable(vals[2]) THEN <<>>
       ELSE IF Strip(PyStr(vals[1])) = <<>> \/ Strip(PyStr(vals[2])) = <<>> THEN <<>>
       ELSE <<(<<Strip(PyStr(vals[1])), Strip(PyStr(vals[2]))>>)>>

RECURSIVE StatedPairs(_)
StatedPairs(rows) ==
    IF rows = <<>> THEN <<>> ELSE StatedRow(Head(rows)) \o StatedPairs(Tail(rows))

\* C8: the extractor returns, in row order, one pair of trimmed strings for
\* every row whose first two values are present, scalar and non-empty after
\* trimming, and nothing for any other row.
C8_SkipsUnusableRows ==
    pc = "parsed" => raw_pairs = StatedPairs(Rows(rel_doc))

----------------------------------------------------------------------------
(* Properties of main, checked under SpecCli *)

InputPaths == <<RelPath(args), SrcNodesPath(args), TgtNodesPath(args)>>

Missing(i) == ~fs[InputPaths[i]].exists
AnyMissing == \E i \in 1..3 : Missing(i)

\* the first absent input in the order relation, source nodes, target nodes
FirstMissing == InputPaths[MinOf({i \in 1..3 : Missing(i)})]

NothingWritten ==
    /\ out_dirs = {}
    /\ out_files = <<>>
    /\ \A i \in 1..Len(io_log) : io_log[i][1] \notin {"mkdir", "write"}

\* C9: with an input file absent the run ends in a not-found error naming the
\* (first) missing path before any dump is opened or any statistic computed,
\* and writes nothing; a directory or report is written only once
\* compute_relation_stats has returned its report, so no failed run writes.
C9_FailFastNoPartialReport ==
    /\ AnyMissing =>
          /\ pc \in {"check_rel", "check_src", "check_tgt", "failed"}
          /\ pc = "failed" => error = FileNotFound(FirstMissing)
          /\ pc # "failed" => ENABLED NextCli
          /\ io_log = <<>>
          /\ rel_doc = NoDoc /\ src_uuids = {} /\ tgt_uuids = {}
          /\ stats = NoStats
          /\ NothingWritten
    /\ ~NothingWritten =>
          /\ pc \in {"write", "exit"}
          /\ error = NoError
          /\ stats.cardinality # "none"
          /\ stats = compute_relation_stats(raw_pairs, src_uuids, tgt_uuids)
    /\ pc = "failed" => error # NoError /\ NothingWritten
    /\ pc = "exit" =>
          /\ DOMAIN out_files = {OutPath(args)}
          /\ out_files[OutPath(args)] = ReportDocument(args, stats)

C9_Witness ==
    /\ pc = "failed"
    /\ ~Missing(1) /\ ~Missing(2) /\ Missing(3)
    /\ fs[InputPaths[1]].json_ok /\ fs[InputPaths[2]].json_ok
    /\ error = FileNotFound(TgtNodesPath(args))

----------------------------------------------------------------------------
(* Properties of safe_get, checked under SpecGet *)

RECURSIVE Pow(_, _)
Pow(b, n) == IF n = 0 THEN 1 ELSE b * Pow(b, n - 1)

Finished == pc \in {"sg_done", "sg_raised"}

FailedRequests == {i \in 1..Len(requests) : Retryable(requests[i])}

SafeGetInv ==
    \* never more than max_retries requests
    /\ Len(requests) <= max_retries
    \* only the last request can be a success, and it ends the call with that response
    /\ \A i \in 1..Len(requests) :
          ~Retryable(requests[i]) =>
              /\ i = Len(requests)
              /\ pc = "sg_done"
              /\ result = requests[i]
    /\ result.kind = "response" => requests # <<>> /\ result = requests[Len(requests)]
    \* None exactly when the call has ended with all max_retries requests failed
    /\ (result = ReturnedNone) <=>
          (pc = "sg_done" /\ Len(requests) = max_retries
                          /\ Cardinality(FailedRequests) = max_retries)
    /\ pc = "sg_done" => result # Pending
    /\ pc # "sg_done" => result = Pending
    \* a sleep follows each failed request except the last possible one
    /\ pc = "sg_loop" => Len(sleeps) = Len(requests)
    /\ (pc = "sg_done" /\ result = ReturnedNone /\ max_retries > 0)
          => Len(sleeps) = max_retries - 1
    /\ (pc = "sg_done" /\ result.kind = "response") => Len(sleeps) = Len(requests) - 1
    /\ pc = "sg_raised" => Len(sleeps) = Len(requests) - 1 /\ Pow(backoff, Len(sleeps)) < 0
    \* the k-th sleep lasts backoff^(k-1)
    /\ \A k \in 1..Len(sleeps) : sleeps[k] = Pow(backoff, k - 1)

\* C10: safe_get ends after at most max_retries requests; it returns the first
\* response below 500 and asks no more; it returns None exactly when all
\* max_retries requests failed; it sleeps only between requests, the k-th
\* sleep lasting backoff^(k-1) seconds.
C10_SafeGetBoundedRetries == []SafeGetInv /\ <>Finished

C10_Witness ==
    /\ pc = "sg_done"
    /\ max_retries = DefaultMaxRetries
    /\ backoff = DefaultBackoff
    /\ result = ReturnedNone
    /\ Len(requests) = 5
    /\ sleeps = <<1, 2, 4, 8>>

----------------------------------------------------------------------------
(* Properties of the writer-indexer pipeline, checked under SpecIndex *)

\* main has written its report for args.snapshot / args.relation
ReportWritten ==
    /\ OutPath(args) \in DOMAIN out_files
    /\ out_files[OutPath(args)] = ReportDocument(args, stats)

\* C11: once main has written the report of relation R for snapshot S, a run
\* of build_stats_index writes an index that has an entry for S listing R
\* among its relations.
C11_IndexListsWrittenReport ==
    (pc \in {"indexed", "index_skipped"} /\ ReportWritten) =>
        /\ index_file.written
        /\ \E i \in 1..Len(index_file.snapshots) :
              /\ index_file.snapshots[i].date = args.snapshot
              /\ args.relation \in SeqToSet(index_file.snapshots[i].relations)

====
